---- MODULE Spec2Model ----
(***************************************************************************)
(* Shamir secret sharing, Pedersen verifiable secret sharing (VSS) and     *)
(* Pedersen decentralized VSS (DVSS) of evernym/secret-sharing-schemes.    *)
(*                                                                         *)
(* The scalar field F_q and the group G1 come from amcl_wrapper.  G1 has   *)
(* prime order q, so it is isomorphic to the additive group of integers    *)
(* modulo q; the model takes q = Q and writes a group element as its       *)
(* residue (identity 0, group addition = addition modulo Q, scalar         *)
(* multiplication = multiplication modulo Q).                              *)
(*                                                                         *)
(* A HashMap is a function whose DOMAIN is its key set.  A panic (failed   *)
(* assert!, unwrap of None/Err, index of a missing key, integer underflow) *)
(* is the result record field aborted = TRUE.                              *)
(***************************************************************************)
EXTENDS Integers, Sequences, FiniteSets

(* ---------------------------------------------------------------- bounds *)
MaxTotal == 3        \* largest number of participants n
MaxThreshold == 2    \* largest threshold k
MaxSeed == 2         \* seeds 0..MaxSeed of the random source
MaxLabel == 1        \* labels 0..MaxLabel handed to gens

(* ------------------------------------------------- field and group (amcl) *)
Q == 7

FieldElement == 0 .. (Q - 1)
G1 == 0 .. (Q - 1)

\* FieldElement::from(x as u64)
FromU64(x) == x % Q
FieldZero == 0
FieldOne == 1
FieldAdd(a, b) == (a + b) % Q
FieldMul(a, b) == (a * b) % Q
FieldNeg(a) == (Q - a) % Q
\* inverse_mut: the multiplicative inverse; zero stays zero
FieldInverse(a) == IF a = 0 THEN 0 ELSE CHOOSE y \in 1 .. (Q - 1) : (a * y) % Q = 1

G1Identity == 0
G1Add(a, b) == (a + b) % Q
G1Negation(a) == (Q - a) % Q
G1ScalarMul(a, e) == (a * e) % Q
\* g.binary_scalar_mul(&h, a, b) = g^a * h^b
binary_scalar_mul(g, h, a, b) == G1Add(G1ScalarMul(g, a), G1ScalarMul(h, b))

RECURSIVE FieldPow(_, _)
FieldPow(x, e) == IF e = 0 THEN 1 ELSE FieldMul(x, FieldPow(x, e - 1))

\* FieldElementVector::new_vandermonde_vector(x, size) = [1, x, x^2, ..., x^(size-1)]
new_vandermonde_vector(x, size) == [j \in 1 .. size |-> FieldPow(x, j - 1)]

RECURSIVE SumTo(_, _)
\* sum of f[1..n] in the field / the group (both are addition modulo Q)
SumTo(f, n) == IF n = 0 THEN 0 ELSE (SumTo(f, n - 1) + f[n]) % Q

\* FieldElementVector::inner_product: Err when the lengths differ
inner_product(a, b) ==
    IF Len(a) # Len(b)
    THEN [aborted |-> TRUE, value |-> 0]
    ELSE [aborted |-> FALSE,
          value |-> SumTo([j \in 1 .. Len(a) |-> FieldMul(a[j], b[j])], Len(a))]

\* G1Vector::multi_scalar_mul_var_time: Err when the lengths differ
multi_scalar_mul_var_time(bases, exp) ==
    IF Len(bases) # Len(exp)
    THEN [aborted |-> TRUE, value |-> 0]
    ELSE [aborted |-> FALSE,
          value |-> SumTo([j \in 1 .. Len(bases) |-> G1ScalarMul(bases[j], exp[j])],
                          Len(bases))]

(* The random source.  FieldElementVector::random(len) returns the next    *)
(* len scalars of the thread's generator, which is seeded from the         *)
(* operating system; RandomScalar(seed, j) is the j-th scalar of the       *)
(* stream of seed.                                                         *)
RandomScalar(seed, j) == (seed * (j + 1) + j * j + 1) % Q

\* G1::from_msg_hash: a fixed map of messages to non-identity group elements.
\* The message is label || suffix, suffix 0 for " : g" and 1 for " : h".
from_msg_hash(label, suffix) == 1 + ((2 * label + suffix) % (Q - 1))

(* ------------------------------------------------------------ polynomial *)
\* Polynomial::random(degree): coefficients[1] is the constant term; the
\* generator of seed has already returned `drawn` scalars
PolynomialRandom(degree, seed, drawn) ==
    [j \in 1 .. (degree + 1) |-> RandomScalar(seed, drawn + j)]

degree(poly) == Len(poly) - 1

\* Polynomial::eval
eval(poly, x) ==
    IF x = 0
    THEN poly[1]
    ELSE inner_product(poly, new_vandermonde_vector(x, degree(poly) + 1)).value

RECURSIVE LagrangeProducts(_, _)
\* the loop of lagrange_basis_at_0: <<numerator, denominator>> over x_coords
LagrangeProducts(x_coords, i) ==
    IF x_coords = {}
    THEN <<FieldOne, FieldOne>>
    ELSE LET x == CHOOSE y \in x_coords : TRUE
             rest == LagrangeProducts(x_coords \ {x}, i)
         IN  IF x = i
             THEN rest
             ELSE <<FieldMul(rest[1], FromU64(x)),
                    FieldMul(rest[2], FieldAdd(FromU64(x), FieldNeg(FromU64(i))))>>

\* lagrange_basis_at_0 without denominator.inverse_mut()
lagrange_basis_at_0_no_inverse(x_coords, i) ==
    LET nd == LagrangeProducts(x_coords, i)
    IN  FieldMul(nd[1], nd[2])

\* Polynomial::lagrange_basis_at_0
lagrange_basis_at_0(x_coords, i) ==
    LET nd == LagrangeProducts(x_coords, i)
    IN  FieldMul(nd[1], FieldInverse(nd[2]))

(* ---------------------------------------------------------------- Shamir *)
\* get_shared_secret_with_polynomial; (seed, drawn) is the generator's state.
\* threshold - 1 underflows for threshold = 0: a debug build panics there, a
\* release build wraps and panics on coefficients()[0] of the empty vector.
get_shared_secret_with_polynomial(k, n, seed, drawn) ==
    IF k = 0
    THEN [aborted |-> TRUE, secret |-> 0, shares |-> <<>>, poly |-> <<>>]
    ELSE LET random_poly == PolynomialRandom(k - 1, seed, drawn)
         IN  [aborted |-> FALSE,
              secret |-> eval(random_poly, FieldZero),
              shares |-> [x \in 1 .. n |-> eval(random_poly, FromU64(x))],
              poly |-> random_poly]

\* get_shared_secret: the same without the polynomial
get_shared_secret(k, n, seed) ==
    LET r == get_shared_secret_with_polynomial(k, n, seed, 0)
    IN  [aborted |-> r.aborted, secret |-> r.secret, shares |-> r.shares]

\* shares.iter().take(threshold): a HashMap iterates in an unspecified order,
\* so any threshold keys of the map may be the ones taken
TakeIds(k, shares) == {X \in SUBSET (DOMAIN shares) : Cardinality(X) = k}

RECURSIVE LagrangeSum(_, _, _)
\* the loop of reconstruct_secret over the ids still to visit
LagrangeSum(todo, share_ids, shares) ==
    IF todo = {}
    THEN FieldZero
    ELSE LET id == CHOOSE y \in todo : TRUE
         IN  FieldAdd(LagrangeSum(todo \ {id}, share_ids, shares),
                      FieldMul(lagrange_basis_at_0(share_ids, id), shares[id]))

\* reconstruct_secret; share_ids is the set of ids taken from the map
reconstruct_secret(k, shares, share_ids) ==
    IF Cardinality(DOMAIN shares) < k
    THEN [aborted |-> TRUE, value |-> 0]
    ELSE [aborted |-> FALSE, value |-> LagrangeSum(share_ids, share_ids, shares)]

(* ---------------------------------------------------------- Pedersen VSS *)
\* PedersenVSS::gens
gens(label) == <<from_msg_hash(label, 0), from_msg_hash(label, 1)>>

\* deal that blinds every commitment with the constant term of t_poly
deal_constant_blinding(k, n, gg, hh, seed) ==
    LET S == get_shared_secret_with_polynomial(k, n, seed, 0)
        T == get_shared_secret_with_polynomial(k, n, seed, k)
    IN  IF S.aborted \/ T.aborted
        THEN [aborted |-> TRUE, s |-> 0, t |-> 0, commitment_coeffs |-> <<>>,
              s_shares |-> <<>>, t_shares |-> <<>>]
        ELSE [aborted |-> FALSE, s |-> S.secret, t |-> T.secret,
              commitment_coeffs |->
                  [i \in 0 .. (k - 1) |->
                      binary_scalar_mul(gg, hh, S.poly[i + 1], T.poly[1])],
              s_shares |-> S.shares, t_shares |-> T.shares]

\* PedersenVSS::deal; the two polynomials are consecutive draws of the generator
deal(k, n, gg, hh, seed) ==
    LET S == get_shared_secret_with_polynomial(k, n, seed, 0)
        T == get_shared_secret_with_polynomial(k, n, seed, k)
    IN  IF S.aborted \/ T.aborted
        THEN [aborted |-> TRUE, s |-> 0, t |-> 0, commitment_coeffs |-> <<>>,
              s_shares |-> <<>>, t_shares |-> <<>>]
        ELSE [aborted |-> FALSE, s |-> S.secret, t |-> T.secret,
              commitment_coeffs |->
                  [i \in 0 .. (k - 1) |->
                      binary_scalar_mul(gg, hh, S.poly[i + 1], T.poly[i + 1])],
              s_shares |-> S.shares, t_shares |-> T.shares]

\* verify_share that leaves share.1 and h out of the multi-scalar multiplication
verify_share_without_blinding(k, id, share, commitment_coeffs, gg, hh) ==
    IF Cardinality(DOMAIN commitment_coeffs) < k
    THEN [aborted |-> TRUE, value |-> FALSE]
    ELSE IF \E i \in 0 .. (k - 1) : i \notin DOMAIN commitment_coeffs
    THEN [aborted |-> TRUE, value |-> FALSE]
    ELSE LET exp == new_vandermonde_vector(FromU64(id), k) \o <<share[1]>>
             bases == [i \in 1 .. k |-> commitment_coeffs[i - 1]] \o <<G1Negation(gg)>>
             r == multi_scalar_mul_var_time(bases, exp)
         IN  [aborted |-> r.aborted, value |-> (~r.aborted /\ r.value = G1Identity)]

\* PedersenVSS::verify_share; share = <<s, t>>
verify_share(k, id, share, commitment_coeffs, gg, hh) ==
    IF Cardinality(DOMAIN commitment_coeffs) < k
    THEN [aborted |-> TRUE, value |-> FALSE]      \* assert!(len >= threshold)
    ELSE IF \E i \in 0 .. (k - 1) : i \notin DOMAIN commitment_coeffs
    THEN [aborted |-> TRUE, value |-> FALSE]      \* commitment_coeffs[&i] panics
    ELSE LET exp == new_vandermonde_vector(FromU64(id), k) \o <<share[1], share[2]>>
             bases == [i \in 1 .. k |-> commitment_coeffs[i - 1]]
                          \o <<G1Negation(gg), G1Negation(hh)>>
             r == multi_scalar_mul_var_time(bases, exp)
         IN  [aborted |-> r.aborted, value |-> (~r.aborted /\ r.value = G1Identity)]

\* the function f with key a removed / with key a set to v (HashMap remove, insert)
MapRemove(f, a) == [x \in (DOMAIN f) \ {a} |-> f[x]]
MapInsert(f, a, v) == [x \in (DOMAIN f) \cup {a} |-> IF x = a THEN v ELSE f[x]]

(* --------------------------------------------------------- Pedersen DVSS *)
\* new that keeps the blinding t of the dealing as its secret
new_keeps_blinding(id, k, n, gg, hh, seed) ==
    LET d == deal(k, n, gg, hh, seed)
    IN  [aborted |-> d.aborted,
         p |-> [id |-> id,
                secret |-> d.t,
                comm_coeffs |-> d.commitment_coeffs,
                s_shares |-> d.s_shares,
                t_shares |-> d.t_shares,
                all_comm_coeffs |-> <<>>,
                all_shares |-> <<>>,
                final_comm_coeffs |-> <<>>,
                secret_share |-> FieldZero]]

\* PedersenDVSSParticipant::new; FieldElement::new() is zero
new(id, k, n, gg, hh, seed) ==
    LET d == deal(k, n, gg, hh, seed)
    IN  [aborted |-> d.aborted,
         p |-> [id |-> id,
                secret |-> d.s,
                comm_coeffs |-> d.commitment_coeffs,
                s_shares |-> d.s_shares,
                t_shares |-> d.t_shares,
                all_comm_coeffs |-> <<>>,
                all_shares |-> <<>>,
                final_comm_coeffs |-> <<>>,
                secret_share |-> FieldZero]]

\* received_share that inserts the commitments before it verifies the share
received_share_insert_first(p, sender_id, comm_coeffs, share, k, n, gg, hh) ==
    IF sender_id > n
    THEN [aborted |-> TRUE, p |-> p]
    ELSE IF sender_id \in DOMAIN p.all_comm_coeffs
    THEN [aborted |-> TRUE, p |-> p]
    ELSE IF sender_id \in DOMAIN p.all_shares
    THEN [aborted |-> TRUE, p |-> p]
    ELSE LET v == verify_share(k, p.id, share, comm_coeffs, gg, hh)
             q == [p EXCEPT !.all_comm_coeffs = MapInsert(@, sender_id, comm_coeffs)]
         IN  IF v.aborted \/ ~v.value
             THEN [aborted |-> TRUE, p |-> q]
             ELSE [aborted |-> FALSE,
                   p |-> [q EXCEPT !.all_shares = MapInsert(@, sender_id, share)]]

\* received_share that files a contribution under its arrival number
received_share_by_arrival(p, sender_id, comm_coeffs, share, k, n, gg, hh) ==
    LET slot == Cardinality(DOMAIN p.all_shares) + 1
    IN  IF sender_id > n
        THEN [aborted |-> TRUE, p |-> p]
        ELSE IF slot > n - 1
        THEN [aborted |-> TRUE, p |-> p]
        ELSE LET v == verify_share(k, p.id, share, comm_coeffs, gg, hh)
             IN  IF v.aborted \/ ~v.value
                 THEN [aborted |-> TRUE, p |-> p]
                 ELSE [aborted |-> FALSE,
                       p |-> [p EXCEPT
                                 !.all_comm_coeffs =
                                     MapInsert(@, IF slot < p.id THEN slot ELSE slot + 1,
                                               comm_coeffs),
                                 !.all_shares =
                                     MapInsert(@, IF slot < p.id THEN slot ELSE slot + 1,
                                               share)]]

\* PedersenDVSSParticipant::received_share on participant p; share = <<s, t>>.
\* Every assert precedes the two inserts, so a panic leaves p as it was.
received_share(p, sender_id, comm_coeffs, share, k, n, gg, hh) ==
    IF sender_id > n
    THEN [aborted |-> TRUE, p |-> p]
    ELSE IF sender_id \in DOMAIN p.all_comm_coeffs
    THEN [aborted |-> TRUE, p |-> p]
    ELSE IF sender_id \in DOMAIN p.all_shares
    THEN [aborted |-> TRUE, p |-> p]
    ELSE LET v == verify_share(k, p.id, share, comm_coeffs, gg, hh)
         IN  IF v.aborted \/ ~v.value
             THEN [aborted |-> TRUE, p |-> p]
             ELSE [aborted |-> FALSE,
                   p |-> [p EXCEPT
                             !.all_comm_coeffs = MapInsert(@, sender_id, comm_coeffs),
                             !.all_shares = MapInsert(@, sender_id, share)]]

\* compute_final_comm_coeffs_and_shares that sums the contributions present
\* and skips the peers that are missing
compute_final_skipping_missing(p, k, n, gg, hh) ==
    IF Cardinality(DOMAIN p.all_comm_coeffs) # n - 1
    THEN [aborted |-> TRUE, p |-> p]
    ELSE IF Cardinality(DOMAIN p.all_shares) # n - 1
    THEN [aborted |-> TRUE, p |-> p]
    ELSE
    LET cm(i) == SumTo([j \in 1 .. n |->
                           IF j = p.id THEN p.comm_coeffs[i]
                           ELSE IF j \in DOMAIN p.all_comm_coeffs
                           THEN p.all_comm_coeffs[j][i]
                           ELSE G1Identity], n)
        fcc == [i \in (DOMAIN p.final_comm_coeffs) \cup (0 .. (k - 1)) |->
                   IF i \in 0 .. (k - 1) THEN cm(i) ELSE p.final_comm_coeffs[i]]
        partial == [p EXCEPT !.final_comm_coeffs = fcc]
        final_s_share == SumTo([i \in 1 .. n |->
                                   IF i = p.id THEN p.s_shares[i]
                                   ELSE IF i \in DOMAIN p.all_shares
                                   THEN p.all_shares[i][1]
                                   ELSE FieldZero], n)
        final_t_share == SumTo([i \in 1 .. n |->
                                   IF i = p.id THEN p.t_shares[i]
                                   ELSE IF i \in DOMAIN p.all_shares
                                   THEN p.all_shares[i][2]
                                   ELSE FieldZero], n)
        v == verify_share(k, p.id, <<final_s_share, final_t_share>>, fcc, gg, hh)
    IN  IF v.aborted \/ ~v.value
        THEN [aborted |-> TRUE, p |-> partial]
        ELSE [aborted |-> FALSE,
              p |-> [partial EXCEPT !.secret_share = final_s_share]]

\* PedersenDVSSParticipant::compute_final_comm_coeffs_and_shares on participant p.
\* final_comm_coeffs is filled entry by entry before the later panics can
\* happen, so an aborted call may leave the entries already inserted.
compute_final_comm_coeffs_and_shares(p, k, n, gg, hh) ==
    IF Cardinality(DOMAIN p.all_comm_coeffs) # n - 1
    THEN [aborted |-> TRUE, p |-> p]
    ELSE IF Cardinality(DOMAIN p.all_shares) # n - 1
    THEN [aborted |-> TRUE, p |-> p]
    ELSE
    LET \* iteration i of the outer loop panics on a missing key
        Panics(i) ==
            \E j \in 1 .. n :
                IF j # p.id
                THEN \/ j \notin DOMAIN p.all_comm_coeffs
                     \/ i \notin DOMAIN p.all_comm_coeffs[j]
                ELSE i \notin DOMAIN p.comm_coeffs
        inserted == {i \in 0 .. (k - 1) : \A i2 \in 0 .. i : ~Panics(i2)}
        cm(i) == SumTo([j \in 1 .. n |->
                           IF j # p.id THEN p.all_comm_coeffs[j][i]
                                       ELSE p.comm_coeffs[i]], n)
        fcc == [i \in (DOMAIN p.final_comm_coeffs) \cup inserted |->
                   IF i \in inserted THEN cm(i) ELSE p.final_comm_coeffs[i]]
        partial == [p EXCEPT !.final_comm_coeffs = fcc]
        SharePanics ==
            \E i \in 1 .. n :
                IF i # p.id
                THEN i \notin DOMAIN p.all_shares
                ELSE i \notin DOMAIN p.s_shares \/ i \notin DOMAIN p.t_shares
        final_s_share == SumTo([i \in 1 .. n |->
                                   IF i # p.id THEN p.all_shares[i][1]
                                               ELSE p.s_shares[i]], n)
        final_t_share == SumTo([i \in 1 .. n |->
                                   IF i # p.id THEN p.all_shares[i][2]
                                               ELSE p.t_shares[i]], n)
    IN  IF inserted # 0 .. (k - 1)
        THEN [aborted |-> TRUE, p |-> partial]
        ELSE IF SharePanics
        THEN [aborted |-> TRUE, p |-> partial]
        ELSE LET v == verify_share(k, p.id, <<final_s_share, final_t_share>>,
                                   fcc, gg, hh)
             IN  IF v.aborted \/ ~v.value
                 THEN [aborted |-> TRUE, p |-> partial]
                 ELSE [aborted |-> FALSE,
                       p |-> [partial EXCEPT !.secret_share = final_s_share]]

(* ------------------------------------------------------------------ state *)
VARIABLES
    threshold,      \* k, public parameter of the run
    total,          \* n, public parameter of the run
    g, h,           \* the generators returned by gens
    dealing,        \* the output of get_shared_secret / PedersenVSS::deal under test
    call,           \* the last operation performed, with its inputs and result
    participants,   \* id -> PedersenDVSSParticipant
    order,          \* id -> the contributions that participant accepted, in order
    pc              \* where share_secret_for_testing and its test stand

vars == <<threshold, total, g, h, dealing, call, participants, order, pc>>

NoCall == [op |-> "none"]
NoHarness == [phase |-> "none", i |-> 0, j |-> 0]
NoTamper == [kind |-> "none", at |-> 0]
NoDealing ==
    [status |-> "none", s |-> 0, t |-> 0, commitment_coeffs |-> <<>>,
     s_shares |-> <<>>, t_shares |-> <<>>, tamper |-> NoTamper]

(* ------------------------------------------- Shamir and VSS, one dealing *)
InitVSS ==
    /\ threshold \in 0 .. MaxThreshold
    /\ total \in 1 .. MaxTotal
    /\ \E label \in 0 .. MaxLabel : g = gens(label)[1] /\ h = gens(label)[2]
    /\ dealing = NoDealing
    /\ call = NoCall
    /\ participants = <<>>
    /\ order = <<>>
    /\ pc = NoHarness

\* let (secret, shares) = get_shared_secret(threshold, total)
GetSharedSecret ==
    /\ dealing.status = "none"
    /\ \E seed \in 0 .. MaxSeed :
          LET r == get_shared_secret(threshold, total, seed)
          IN  dealing' = [NoDealing EXCEPT
                             !.status = IF r.aborted THEN "abort" ELSE "shamir",
                             !.s = r.secret, !.s_shares = r.shares]
    /\ call' = [op |-> "get_shared_secret"]
    /\ UNCHANGED <<threshold, total, g, h, participants, order, pc>>

\* let (s, t, comm_coeffs, s_shares, t_shares) = PedersenVSS::deal(threshold, total, &g, &h)
Deal ==
    /\ dealing.status = "none"
    /\ \E seed \in 0 .. MaxSeed :
          LET r == deal(threshold, total, g, h, seed)
          IN  dealing' = [status |-> IF r.aborted THEN "abort" ELSE "vss",
                          s |-> r.s, t |-> r.t,
                          commitment_coeffs |-> r.commitment_coeffs,
                          s_shares |-> r.s_shares, t_shares |-> r.t_shares,
                          tamper |-> NoTamper]
    /\ call' = [op |-> "deal"]
    /\ UNCHANGED <<threshold, total, g, h, participants, order, pc>>

\* a party other than the dealer replaces one share component of participant i
TamperShare ==
    /\ dealing.status = "vss"
    /\ dealing.tamper.kind = "none"
    /\ \E i \in DOMAIN dealing.s_shares, v \in FieldElement :
          \/ /\ v # dealing.s_shares[i]
             /\ dealing' = [dealing EXCEPT !.s_shares[i] = v,
                                           !.tamper = [kind |-> "s", at |-> i]]
          \/ /\ v # dealing.t_shares[i]
             /\ dealing' = [dealing EXCEPT !.t_shares[i] = v,
                                           !.tamper = [kind |-> "t", at |-> i]]
    /\ call' = [op |-> "tamper"]
    /\ UNCHANGED <<threshold, total, g, h, participants, order, pc>>

\* ... or replaces one commitment C_j by another group element
TamperCommitment ==
    /\ dealing.status = "vss"
    /\ dealing.tamper.kind = "none"
    /\ \E j \in DOMAIN dealing.commitment_coeffs, v \in G1 :
          /\ v # dealing.commitment_coeffs[j]
          /\ dealing' = [dealing EXCEPT !.commitment_coeffs[j] = v,
                                        !.tamper = [kind |-> "comm", at |-> j]]
    /\ call' = [op |-> "tamper"]
    /\ UNCHANGED <<threshold, total, g, h, participants, order, pc>>

\* ... or hands over a commitment map with other keys: entry j dropped ("drop"),
\* entry j moved to key threshold ("move"), an entry added at key threshold ("extra")
TamperKeys ==
    /\ dealing.status = "vss"
    /\ dealing.tamper.kind = "none"
    /\ LET cc == dealing.commitment_coeffs
       IN  \/ \E j \in DOMAIN cc :
                 \/ dealing' = [dealing EXCEPT
                                   !.commitment_coeffs = MapRemove(cc, j),
                                   !.tamper = [kind |-> "drop", at |-> j]]
                 \/ dealing' = [dealing EXCEPT
                                   !.commitment_coeffs =
                                       MapInsert(MapRemove(cc, j), threshold, cc[j]),
                                   !.tamper = [kind |-> "move", at |-> j]]
           \/ \E v \in G1 :
                 dealing' = [dealing EXCEPT
                                !.commitment_coeffs = MapInsert(cc, threshold, v),
                                !.tamper = [kind |-> "extra", at |-> threshold]]
    /\ call' = [op |-> "tamper"]
    /\ UNCHANGED <<threshold, total, g, h, participants, order, pc>>

\* PedersenVSS::verify_share(threshold, id, (&s_shares[&id], &t_shares[&id]), &comm_coeffs, &g, &h)
VerifyShare ==
    /\ dealing.status = "vss"
    /\ \E id \in DOMAIN dealing.s_shares :
          call' = [op |-> "verify_share", id |-> id,
                   ret |-> verify_share(threshold, id,
                                        <<dealing.s_shares[id], dealing.t_shares[id]>>,
                                        dealing.commitment_coeffs, g, h)]
    /\ UNCHANGED <<threshold, total, g, h, dealing, participants, order, pc>>

\* reconstruct_secret(threshold, some_shares): some_shares holds the shares of
\* the ids in `supplied`, of which the ids in `picked` are the ones taken
ReconstructSecret ==
    /\ dealing.status \in {"shamir", "vss"}
    /\ dealing.tamper.kind = "none"
    /\ \E supplied \in SUBSET (DOMAIN dealing.s_shares) :
          LET some_shares == [i \in supplied |-> dealing.s_shares[i]]
          IN  \/ /\ TakeIds(threshold, some_shares) = {}
                 /\ call' = [op |-> "reconstruct_secret", supplied |-> supplied,
                             picked |-> {},
                             ret |-> reconstruct_secret(threshold, some_shares, {})]
              \/ \E picked \in TakeIds(threshold, some_shares) :
                    call' = [op |-> "reconstruct_secret", supplied |-> supplied,
                             picked |-> picked,
                             ret |-> reconstruct_secret(threshold, some_shares, picked)]
    /\ UNCHANGED <<threshold, total, g, h, dealing, participants, order, pc>>

NextVSS ==
    \/ GetSharedSecret
    \/ Deal
    \/ TamperShare
    \/ TamperCommitment
    \/ TamperKeys
    \/ VerifyShare
    \/ ReconstructSecret

SpecVSS == InitVSS /\ [][NextVSS]_vars

(* ---------------------------------- DVSS: one participant, any caller *)
\* The participant is handed to a caller that may pass any sender id and any
\* message; k and n are the run's public parameters with 1 <= k <= n.
Init ==
    /\ total \in 1 .. MaxTotal
    /\ threshold \in 1 .. MaxThreshold
    /\ threshold <= total
    /\ \E label \in 0 .. MaxLabel : g = gens(label)[1] /\ h = gens(label)[2]
    /\ dealing = NoDealing
    /\ call = NoCall
    /\ participants = <<>>
    /\ order = <<>>
    /\ pc = NoHarness

\* the contribution participant `to` is sent by a dealer whose generator has `seed`
Contribution(to, seed) ==
    LET d == deal(threshold, total, g, h, seed)
    IN  [comm_coeffs |-> d.commitment_coeffs,
         share |-> <<d.s_shares[to], d.t_shares[to]>>]

\* the seed of the generator of the dealer behind the messages under sender_id
PeerSeed(sender_id) == sender_id % (MaxSeed + 1)

\* what a caller may hand to participant `to` under sender_id: that dealer's
\* contribution as dealt, or with a share component changed, or with a
\* commitment dropped or moved to another key
Messages(to, sender_id) ==
    LET c == Contribution(to, PeerSeed(sender_id))
        cc == c.comm_coeffs
    IN  {c,
         [c EXCEPT !.share[1] = FieldAdd(@, FieldOne)],
         [c EXCEPT !.share[2] = FieldAdd(@, FieldOne)],
         [c EXCEPT !.comm_coeffs = MapRemove(cc, threshold - 1)],
         [c EXCEPT !.comm_coeffs =
              MapInsert(MapRemove(cc, threshold - 1), threshold, cc[threshold - 1])]}

\* let p = PedersenDVSSParticipant::new(id, threshold, total, &g, &h)
New ==
    /\ participants = <<>>
    /\ \E id \in 1 .. total, seed \in 0 .. MaxSeed :
          LET r == new(id, threshold, total, g, h, seed)
          IN  /\ ~r.aborted
              /\ participants' = MapInsert(participants, id, r.p)
              /\ order' = MapInsert(order, id, <<>>)
    /\ call' = [op |-> "new", aborted |-> FALSE]
    /\ UNCHANGED <<threshold, total, g, h, dealing, pc>>

\* p.received_share(sender_id, comm_coeffs, share, threshold, total, &g, &h)
ReceivedShare ==
    /\ \E id \in DOMAIN participants, sender_id \in 0 .. (total + 1) :
          \E m \in Messages(id, sender_id) :
             LET r == received_share(participants[id], sender_id, m.comm_coeffs,
                                     m.share, threshold, total, g, h)
             IN  /\ participants' = [participants EXCEPT ![id] = r.p]
                 /\ call' = [op |-> "received_share", aborted |-> r.aborted,
                             share_verifies |->
                                 verify_share(threshold, id, m.share, m.comm_coeffs,
                                              g, h).value]
    /\ UNCHANGED <<threshold, total, g, h, dealing, order, pc>>

\* p.compute_final_comm_coeffs_and_shares(threshold, total, &g, &h)
ComputeFinal ==
    /\ \E id \in DOMAIN participants :
          LET r == compute_final_comm_coeffs_and_shares(participants[id], threshold,
                                                        total, g, h)
          IN  /\ participants' = [participants EXCEPT ![id] = r.p]
              /\ call' = [op |-> "compute_final_comm_coeffs_and_shares",
                          aborted |-> r.aborted]
    /\ UNCHANGED <<threshold, total, g, h, dealing, order, pc>>

Next ==
    \/ New
    \/ ReceivedShare
    \/ ComputeFinal

Spec == Init /\ [][Next]_vars

(* ------------------- DVSS: one participant, its peers' shares in any order *)
\* sender_id's contribution as dealt reaches the participant; the order of the
\* senders is free
DeliverShare ==
    /\ \E id \in DOMAIN participants :
          \E sender_id \in (1 .. total) \ {id} :
             LET m == Contribution(id, PeerSeed(sender_id))
                 r == received_share(participants[id], sender_id, m.comm_coeffs,
                                     m.share, threshold, total, g, h)
             IN  /\ participants' = [participants EXCEPT ![id] = r.p]
                 /\ order' = IF r.aborted
                             THEN order
                             ELSE [order EXCEPT ![id] =
                                      Append(@, [sender_id |-> sender_id,
                                                 comm_coeffs |-> m.comm_coeffs,
                                                 share |-> m.share])]
                 /\ call' = [op |-> "received_share", aborted |-> r.aborted,
                             share_verifies |->
                                 verify_share(threshold, id, m.share, m.comm_coeffs,
                                              g, h).value]
    /\ UNCHANGED <<threshold, total, g, h, dealing, pc>>

NextOrder ==
    \/ New
    \/ DeliverShare
    \/ ComputeFinal

SpecOrder == Init /\ [][NextOrder]_vars

(* ----------------------- DVSS: share_secret_for_testing and its test *)
InitDVSS ==
    /\ total \in 1 .. MaxTotal
    /\ threshold \in 1 .. MaxThreshold
    /\ threshold <= total
    /\ \E label \in 0 .. MaxLabel : g = gens(label)[1] /\ h = gens(label)[2]
    /\ dealing = NoDealing
    /\ call = NoCall
    /\ participants = <<>>
    /\ order = <<>>
    /\ pc = [phase |-> "new", i |-> 1, j |-> 1]

\* the loop position after (i, j) in `for i in 0..total { for j in 0..total {
\* if i == j { continue; } ... } }`, with ids i + 1 and j + 1 for the indices;
\* the third loop follows the second
PairsAfter(i, j) ==
    {ij \in (1 .. total) \X (1 .. total) :
        /\ ij[1] # ij[2]
        /\ ij[1] > i \/ (ij[1] = i /\ ij[2] > j)}

NextPosition(i, j) ==
    IF PairsAfter(i, j) = {}
    THEN [phase |-> "compute", i |-> 1, j |-> 1]
    ELSE LET ij == CHOOSE a \in PairsAfter(i, j) :
                       \A b \in PairsAfter(i, j) :
                           a[1] < b[1] \/ (a[1] = b[1] /\ a[2] <= b[2])
         IN  [phase |-> "share", i |-> ij[1], j |-> ij[2]]

Panicked == [phase |-> "panic", i |-> 0, j |-> 0]

\* first loop: participants.push(PedersenDVSSParticipant::new(i, ...))
HarnessNew ==
    /\ pc.phase = "new"
    /\ \E seed \in 0 .. MaxSeed :
          LET r == new(pc.i, threshold, total, g, h, seed)
          IN  /\ participants' = MapInsert(participants, pc.i, r.p)
              /\ order' = MapInsert(order, pc.i, <<>>)
              /\ call' = [op |-> "new", aborted |-> r.aborted]
              /\ pc' = IF r.aborted THEN Panicked
                       ELSE IF pc.i < total THEN [pc EXCEPT !.i = @ + 1]
                       ELSE NextPosition(0, 0)
    /\ UNCHANGED <<threshold, total, g, h, dealing>>

\* second loop: participants[i] receives from participants[j]
HarnessShare ==
    /\ pc.phase = "share"
    /\ LET sender == participants[pc.j]
           share == <<sender.s_shares[pc.i], sender.t_shares[pc.i]>>
           r == received_share(participants[pc.i], sender.id, sender.comm_coeffs,
                               share, threshold, total, g, h)
       IN  /\ participants' = [participants EXCEPT ![pc.i] = r.p]
           /\ order' = IF r.aborted
                       THEN order
                       ELSE [order EXCEPT ![pc.i] =
                                Append(@, [sender_id |-> sender.id,
                                           comm_coeffs |-> sender.comm_coeffs,
                                           share |-> share])]
           /\ call' = [op |-> "received_share", aborted |-> r.aborted,
                       share_verifies |->
                           verify_share(threshold, pc.i, share, sender.comm_coeffs,
                                        g, h).value]
           /\ pc' = IF r.aborted THEN Panicked ELSE NextPosition(pc.i, pc.j)
    /\ UNCHANGED <<threshold, total, g, h, dealing>>

\* third loop: participants[i].compute_final_comm_coeffs_and_shares(...)
HarnessCompute ==
    /\ pc.phase = "compute"
    /\ LET r == compute_final_comm_coeffs_and_shares(participants[pc.i], threshold,
                                                     total, g, h)
       IN  /\ participants' = [participants EXCEPT ![pc.i] = r.p]
           /\ call' = [op |-> "compute_final_comm_coeffs_and_shares",
                       aborted |-> r.aborted]
           /\ pc' = IF r.aborted THEN Panicked
                    ELSE IF pc.i < total THEN [pc EXCEPT !.i = @ + 1]
                    ELSE [phase |-> "done", i |-> 0, j |-> 0]
    /\ UNCHANGED <<threshold, total, g, h, dealing, order>>

\* test_Pedersen_DVSS: reconstruct_secret(threshold, shares) for the
\* secret_share of threshold participants (the test takes the first threshold)
TestReconstruct ==
    /\ pc.phase = "done"
    /\ \E ids \in SUBSET (1 .. total) :
          /\ Cardinality(ids) = threshold
          /\ LET shares == [i \in ids |-> participants[i].secret_share]
             IN  \E picked \in TakeIds(threshold, shares) :
                    call' = [op |-> "reconstruct_secret", supplied |-> ids,
                             picked |-> picked,
                             ret |-> reconstruct_secret(threshold, shares, picked)]
    /\ UNCHANGED <<threshold, total, g, h, dealing, participants, order, pc>>

NextDVSS ==
    \/ HarnessNew
    \/ HarnessShare
    \/ HarnessCompute
    \/ TestReconstruct

SpecDVSS == InitDVSS /\ [][NextDVSS]_vars

(* ------------------------------------------------------------ properties *)
\* the sum of the secrets chosen by the n participants
SumOfSecrets == SumTo([i \in 1 .. total |-> participants[i].secret], total)

\* C1 (DVSS correctness): once every participant has been created, has accepted
\* every other participant's share and has computed its final share,
\* reconstruct_secret over the secret_share of any k participants returns the
\* sum of the n participants' secrets.
C1_DVSSCorrect ==
    (pc.phase = "done" /\ call.op = "reconstruct_secret")
        => (~call.ret.aborted /\ call.ret.value = SumOfSecrets)

C1_Witness ==
    /\ pc.phase = "done"
    /\ call.op = "reconstruct_secret"
    /\ total = 3
    /\ threshold = 2
    /\ call.supplied = {2, 3}
    /\ participants[1].secret # participants[2].secret
    /\ call.ret.value = SumOfSecrets

\* C2 (Shamir correctness): for 1 <= k <= n, reconstruct_secret(k, S) returns
\* the secret for every subset S of the generated shares with at least k
\* entries, whichever k of them the function takes.
C2_ShamirCorrect ==
    (/\ call.op = "reconstruct_secret"
     /\ 1 <= threshold
     /\ threshold <= total
     /\ Cardinality(call.supplied) >= threshold)
        => (~call.ret.aborted /\ call.ret.value = dealing.s)

C2_Witness ==
    /\ call.op = "reconstruct_secret"
    /\ threshold = 2
    /\ call.supplied = {1, 2, 3}
    /\ call.picked = {2, 3}
    /\ dealing.s_shares[2] # dealing.s_shares[3]
    /\ call.ret.value = dealing.s

\* C3 (VSS share validity): for 1 <= k <= n every share (s_shares[i], t_shares[i])
\* of a dealing verifies against the dealing's commitments, for every i in 1..n.
C3_DealtSharesVerify ==
    (/\ call.op = "verify_share"
     /\ dealing.tamper.kind = "none"
     /\ 1 <= threshold
     /\ threshold <= total)
        => call.ret = [aborted |-> FALSE, value |-> TRUE]

C3_Witness ==
    /\ call.op = "verify_share"
    /\ dealing.tamper.kind = "none"
    /\ threshold = 2
    /\ call.id = total
    /\ total = 3
    /\ call.ret.value

\* C4 (VSS share rejection): with s_shares[i] or t_shares[i] replaced by a
\* different scalar, verify_share for i returns false and the shares of the
\* other participants still verify; with one commitment C_j replaced by a
\* different group element, verify_share returns false.
C4_TamperedShareRejected ==
    (call.op = "verify_share" /\ dealing.tamper.kind \in {"s", "t", "comm"})
        => /\ ~call.ret.aborted
           /\ call.ret.value =
                  (dealing.tamper.kind # "comm" /\ call.id # dealing.tamper.at)

C4_Witness ==
    /\ call.op = "verify_share"
    /\ dealing.tamper.kind = "comm"
    /\ dealing.tamper.at = 1
    /\ ~call.ret.aborted
    /\ ~call.ret.value

\* C9 (verify_share is total): for a commitment map with at least k entries
\* verify_share returns true or false and never aborts.
C9_VerifyShareTotal ==
    (/\ call.op = "verify_share"
     /\ Cardinality(DOMAIN dealing.commitment_coeffs) >= threshold)
        => ~call.ret.aborted

\* C10 (threshold above total is surfaced): a dealing request with k > n aborts
\* and never returns a sharing.
C10_ThresholdAboveTotalSurfaced ==
    threshold > total => dealing.status \in {"none", "abort"}

\* the other participants of the run
Peers(id) == (1 .. total) \ {id}

\* the peers of p from which a verified share and commitment vector are stored
AcceptedPeers(p) ==
    {j \in Peers(p.id) :
        /\ j \in DOMAIN p.all_comm_coeffs
        /\ j \in DOMAIN p.all_shares
        /\ verify_share(threshold, p.id, p.all_shares[j], p.all_comm_coeffs[j], g, h)
               = [aborted |-> FALSE, value |-> TRUE]}

\* C5 (sender-identifier invariant): the keys of a participant's stored peer
\* commitment vectors and peer shares are ids in 1..n other than its own; a
\* received_share call under sender id 0 or its own id stores nothing.
C5_SenderIdsArePeers ==
    \A id \in DOMAIN participants :
        /\ DOMAIN participants[id].all_comm_coeffs \subseteq Peers(id)
        /\ DOMAIN participants[id].all_shares \subseteq Peers(id)

\* C6 (share rejection leaves the state unchanged): a received_share call whose
\* share does not verify against the supplied commitments fails and leaves
\* both peer maps as they were; a call whose share verifies, under a sender id
\* in 1..n other than the participant's own and not yet stored, stores the
\* commitment vector and the share under sender_id.
C6_RejectedShareNotStored ==
    /\ (call.op = "received_share" /\ ~call.share_verifies) => call.aborted
    /\ \A id \in DOMAIN participants, sender_id \in 0 .. (total + 1) :
        \A m \in Messages(id, sender_id) :
            LET p == participants[id]
                r == received_share(p, sender_id, m.comm_coeffs, m.share,
                                    threshold, total, g, h)
                v == verify_share(threshold, id, m.share, m.comm_coeffs, g, h)
            IN  /\ (v.aborted \/ ~v.value)
                     => /\ r.aborted
                        /\ r.p.all_comm_coeffs = p.all_comm_coeffs
                        /\ r.p.all_shares = p.all_shares
                /\ (/\ ~v.aborted
                    /\ v.value
                    /\ sender_id \in Peers(id)
                    /\ sender_id \notin DOMAIN p.all_comm_coeffs
                    /\ sender_id \notin DOMAIN p.all_shares)
                     => /\ ~r.aborted
                        /\ r.p.all_comm_coeffs =
                               MapInsert(p.all_comm_coeffs, sender_id, m.comm_coeffs)
                        /\ r.p.all_shares = MapInsert(p.all_shares, sender_id, m.share)

\* a share was accepted and then a call with a share that does not verify failed
C6_Witness ==
    /\ call.op = "received_share"
    /\ ~call.share_verifies
    /\ call.aborted
    /\ \E id \in DOMAIN participants :
          /\ participants[id].all_shares # <<>>
          /\ DOMAIN participants[id].all_shares = DOMAIN participants[id].all_comm_coeffs

\* C7 (aggregation ordering): compute_final_comm_coeffs_and_shares completes
\* only in a state where a verified share and commitment vector of each of the
\* n-1 other participants is stored; with fewer it fails and leaves
\* final_comm_coeffs and secret_share unchanged.
C7_ComputeNeedsAllPeers ==
    \A id \in DOMAIN participants :
        LET p == participants[id]
            r == compute_final_comm_coeffs_and_shares(p, threshold, total, g, h)
        IN  /\ ~r.aborted => AcceptedPeers(p) = Peers(id)
            /\ AcceptedPeers(p) # Peers(id)
                 => /\ r.aborted
                    /\ r.p.final_comm_coeffs = p.final_comm_coeffs
                    /\ r.p.secret_share = p.secret_share
            /\ (call.op = "compute_final_comm_coeffs_and_shares" /\ ~call.aborted)
                 => AcceptedPeers(p) = Peers(id)

\* the call failed although n-1 contributions are stored: one is not a peer's
C7_Witness ==
    /\ call.op = "compute_final_comm_coeffs_and_shares"
    /\ call.aborted
    /\ total = 3
    /\ \E id \in DOMAIN participants :
          /\ Cardinality(DOMAIN participants[id].all_shares) = total - 1
          /\ Cardinality(AcceptedPeers(participants[id])) = 1
          /\ participants[id].final_comm_coeffs = <<>>

RECURSIVE ReceiveAscending(_, _, _)
\* participant p after received_share for the contributions of log whose
\* sender ids are at least `from`, in ascending order of sender id
ReceiveAscending(p, log, from) ==
    IF from > total + 1
    THEN p
    ELSE LET at == {x \in 1 .. Len(log) : log[x].sender_id = from}
             q == IF at = {}
                  THEN p
                  ELSE LET c == log[CHOOSE x \in at : TRUE]
                       IN  received_share(p, c.sender_id, c.comm_coeffs, c.share,
                                          threshold, total, g, h).p
         IN  ReceiveAscending(q, log, from + 1)

\* the participant as new returned it
AsCreated(p) ==
    [p EXCEPT !.all_comm_coeffs = <<>>, !.all_shares = <<>>,
              !.final_comm_coeffs = <<>>, !.secret_share = FieldZero]

\* C8 (DVSS order independence): whatever the order of the received_share
\* calls for a set of n-1 peer contributions, compute_final_comm_coeffs_and_shares
\* leaves the same final_comm_coeffs, secret_share and peer maps as the calls
\* in ascending order of sender id.
C8_OrderIndependent ==
    \A id \in DOMAIN participants :
        participants[id].final_comm_coeffs # <<>>
            => participants[id] =
                   compute_final_comm_coeffs_and_shares(
                       ReceiveAscending(AsCreated(participants[id]), order[id], 0),
                       threshold, total, g, h).p

\* the shares of two peers arrived in descending order and the final share is computed
C8_Witness ==
    \E id \in DOMAIN participants :
        /\ participants[id].final_comm_coeffs # <<>>
        /\ Len(order[id]) = 2
        /\ order[id][1].sender_id > order[id][2].sender_id
        /\ order[id][1].share # order[id][2].share
        /\ participants[id].secret_share # FieldZero

\* compute_final_comm_coeffs_and_shares has completed on p: final_comm_coeffs
\* and secret_share hold what the call computes from p's maps
Finalized(p) ==
    /\ p.final_comm_coeffs # <<>>
    /\ compute_final_comm_coeffs_and_shares(p, threshold, total, g, h)
           = [aborted |-> FALSE, p |-> p]

\* C11 (no back-edges in the participant lifecycle): a step never removes or
\* replaces a stored peer contribution, and once
\* compute_final_comm_coeffs_and_shares has completed on a participant no
\* later received_share call on it is accepted and no later operation changes
\* its peer maps, final_comm_coeffs or secret_share.
C11_NoBackEdges ==
    [][\A id \in DOMAIN participants :
          LET p == participants[id]
              p2 == participants'[id]
          IN  /\ id \in DOMAIN participants'
              /\ \A j \in DOMAIN p.all_shares :
                     /\ j \in DOMAIN p2.all_shares
                     /\ p2.all_shares[j] = p.all_shares[j]
              /\ \A j \in DOMAIN p.all_comm_coeffs :
                     /\ j \in DOMAIN p2.all_comm_coeffs
                     /\ p2.all_comm_coeffs[j] = p.all_comm_coeffs[j]
              /\ Finalized(p)
                   => /\ call'.op = "received_share" => call'.aborted
                      /\ p2.all_comm_coeffs = p.all_comm_coeffs
                      /\ p2.all_shares = p.all_shares
                      /\ p2.final_comm_coeffs = p.final_comm_coeffs
                      /\ p2.secret_share = p.secret_share]_vars

====
